---- MODULE Spec2Model ----
(***************************************************************************)
(* Model of crypsi's symmetric cipher engine (src/lib/aes_encryption.js)   *)
(* and RSA key manager (src/lib/rsa.js).                                   *)
(*                                                                         *)
(* A JavaScript string is a sequence of code units (naturals), a Buffer a  *)
(* sequence of bytes (0..255).  The conversions between the two (UTF-8,    *)
(* hex, base64) are computed, not assumed.                                 *)
(***************************************************************************)
EXTENDS Integers, Sequences, FiniteSets, TLC

VARIABLES
    op,      \* the call made last: "none", "resolve", "encrypt", "decrypt", "generate", "load", "roundtrip"
    res,     \* outcome of the last getMetaFromAlgorithm call
    enc,     \* inputs, provider trace and outcome of the last encrypt call
    dec,     \* inputs, provider trace and outcome of the last decrypt call
    issued,  \* (key, nonce, ciphertext, tag) tuples the provider has produced
    gen,     \* inputs and provider options of the last generateRSAKeyPair call
    key      \* inputs and outputs of the last key loading call

vars == <<op, res, enc, dec, issued, gen, key>>

aesVars == <<res, enc, dec, issued>>
rsaVars == <<gen, key>>

(***************************************************************************)
(* Bounds of the model.                                                    *)
(***************************************************************************)
\* decrypt is tried on decoded buffers of every length 0..MaxBufLen
MaxBufLen == 18
\* number of distinct values the random nonce source can return
NumNonces == 2
\* longest body of a key text fed to the key loaders
MaxKeyBody == 2

(***************************************************************************)
(* Program constants.                                                      *)
(***************************************************************************)
DEFAULT_AUTH_TAG_LENGTH == 16

\* '-' , the separator of alg.split('-')
Dash == 45

\* U+FFFD, what a UTF-8 decoder emits for a malformed sequence
Replacement == 65533

(***************************************************************************)
(* Strings used as inputs, written as code units.                          *)
(***************************************************************************)
s_aes == <<97, 101, 115>>
s_128 == <<49, 50, 56>>
s_192 == <<49, 57, 50>>
s_256 == <<50, 53, 54>>
s_12  == <<49, 50>>
s_abc == <<97, 98, 99>>
s_cbc == <<99, 98, 99>>
s_gcm == <<103, 99, 109>>
s_ccm == <<99, 99, 109>>
s_ocb == <<111, 99, 98>>
s_GCM == <<71, 67, 77>>
s_CBC == <<67, 66, 67>>
s_Ocb == <<79, 99, 98>>
s_xyz == <<120, 121, 122>>
s_x   == <<120>>
s_aes256gcm == s_aes \o s_256 \o s_gcm
s_chacha20poly1305 ==
    <<99, 104, 97, 99, 104, 97, 50, 48, 45, 112, 111, 108, 121, 49, 51, 48, 53>>

SUPPORTED_AUTH_TAG_MODES == {s_gcm, s_ccm, s_ocb, s_chacha20poly1305}

(***************************************************************************)
(* Generic helpers.                                                        *)
(***************************************************************************)
Min(a, b) == IF a < b THEN a ELSE b
Max(a, b) == IF a > b THEN a ELSE b

RECURSIVE SumSeq(_)
SumSeq(s) == IF s = <<>> THEN 0 ELSE Head(s) + SumSeq(Tail(s))

RECURSIVE Flatten(_)
Flatten(ss) == IF ss = <<>> THEN <<>> ELSE Head(ss) \o Flatten(Tail(ss))

\* Array.prototype.join / the text of an identifier built from its segments
RECURSIVE Join(_, _)
Join(segs, sep) ==
    IF segs = <<>> THEN <<>>
    ELSE IF Len(segs) = 1 THEN Head(segs)
    ELSE Head(segs) \o <<sep>> \o Join(Tail(segs), sep)

\* String.prototype.split(sep) for a one-unit separator
RECURSIVE SplitFrom(_, _, _)
SplitFrom(s, sep, cur) ==
    IF s = <<>> THEN <<cur>>
    ELSE IF Head(s) = sep THEN <<cur>> \o SplitFrom(Tail(s), sep, <<>>)
    ELSE SplitFrom(Tail(s), sep, Append(cur, Head(s)))

Split(s, sep) == SplitFrom(s, sep, <<>>)

IsDigit(c) == c >= 48 /\ c <= 57

\* the leading run of decimal digits of s
RECURSIVE LeadingDigits(_)
LeadingDigits(s) ==
    IF s = <<>> \/ ~IsDigit(Head(s)) THEN <<>>
    ELSE <<Head(s)>> \o LeadingDigits(Tail(s))

RECURSIVE DigitsValue(_, _)
DigitsValue(ds, acc) ==
    IF ds = <<>> THEN acc ELSE DigitsValue(Tail(ds), acc * 10 + (Head(ds) - 48))

\* parseInt(s, 10) on a string without sign or leading blanks: the value of
\* the leading digits, NaN when there is none
parseInt(s) ==
    LET ds == LeadingDigits(s)
    IN  IF ds = <<>> THEN [nan |-> TRUE, num |-> 0]
        ELSE [nan |-> FALSE, num |-> DigitsValue(ds, 0)]

\* a JavaScript number n / d, or NaN
Quot(n, d) == [nan |-> n.nan, num |-> n.num, den |-> d]

\* len !== q for a length len and a number q
StrictNotEqual(len, q) == q.nan \/ len * q.den # q.num

(***************************************************************************)
(* getMetaFromAlgorithm                                                    *)
(***************************************************************************)
NoMeta == [expectedKeyLen |-> Quot([nan |-> TRUE, num |-> 0], 8), mode |-> <<>>, ivLen |-> 0]

getMetaFromAlgorithm_ivSwapped(alg) ==
    LET algSplited == Split(alg, Dash)
    IN  IF Len(algSplited) < 3
        THEN [ok |-> FALSE, err |-> "invalid aes algorithm", meta |-> NoMeta]
        ELSE LET keyLenInt == parseInt(algSplited[2])
                 ivLen == IF algSplited[3] = s_cbc THEN 12 ELSE 16
             IN  [ok |-> TRUE, err |-> "",
                  meta |-> [expectedKeyLen |-> Quot(keyLenInt, 8),
                            mode |-> algSplited[3],
                            ivLen |-> ivLen]]

getMetaFromAlgorithm(alg) ==
    LET algSplited == Split(alg, Dash)
    IN  IF Len(algSplited) < 3
        THEN [ok |-> FALSE, err |-> "invalid aes algorithm", meta |-> NoMeta]
        ELSE LET keyLenInt == parseInt(algSplited[2])
                 ivLen == IF algSplited[3] = s_cbc THEN 16 ELSE 12
             IN  [ok |-> TRUE, err |-> "",
                  meta |-> [expectedKeyLen |-> Quot(keyLenInt, 8),
                            mode |-> algSplited[3],
                            ivLen |-> ivLen]]

(***************************************************************************)
(* Encodings: Buffer.from(string) (UTF-8), buffer.toString() (UTF-8),      *)
(* buffer.toString('hex') and Buffer.from(string, 'hex').                  *)
(***************************************************************************)
\* UTF-8 bytes of one code unit (inputs hold no surrogate halves)
Utf8Unit(c) ==
    IF c < 128 THEN <<c>>
    ELSE IF c < 2048 THEN <<192 + (c \div 64), 128 + (c % 64)>>
    ELSE <<224 + (c \div 4096), 128 + ((c \div 64) % 64), 128 + (c % 64)>>

\* Buffer.from(str) / the 'utf8' input encoding of cipher.update
Utf8Encode(str) == Flatten([i \in 1..Len(str) |-> Utf8Unit(str[i])])

IsCont(b) == b >= 128 /\ b < 192

\* buffer.toString('utf8') / the 'utf8' output encoding of decipher.update
\* and decipher.final: malformed input decodes to U+FFFD
RECURSIVE Utf8Decode(_)
Utf8Decode(b) ==
    IF b = <<>> THEN <<>>
    ELSE IF b[1] < 128 THEN <<b[1]>> \o Utf8Decode(Tail(b))
    ELSE IF b[1] >= 194 /\ b[1] < 224 /\ Len(b) >= 2 /\ IsCont(b[2])
        THEN <<(b[1] - 192) * 64 + (b[2] - 128)>> \o Utf8Decode(SubSeq(b, 3, Len(b)))
    ELSE IF b[1] >= 224 /\ b[1] < 240 /\ Len(b) >= 3 /\ IsCont(b[2]) /\ IsCont(b[3])
              /\ (b[1] - 224) * 4096 + (b[2] - 128) * 64 + (b[3] - 128) >= 2048
        THEN <<(b[1] - 224) * 4096 + (b[2] - 128) * 64 + (b[3] - 128)>>
             \o Utf8Decode(SubSeq(b, 4, Len(b)))
    ELSE <<Replacement>> \o Utf8Decode(Tail(b))

\* lower-case hex digit of a nibble
HexDigit(v) == IF v < 10 THEN 48 + v ELSE 87 + v

\* buffer.toString('hex') and the 'hex' output encoding of cipher.update/final
HexEncode(b) == Flatten([i \in 1..Len(b) |-> <<HexDigit(b[i] \div 16), HexDigit(b[i] % 16)>>])

\* value of a hex digit in either letter case, -1 for any other code unit
HexVal(c) ==
    IF c >= 48 /\ c <= 57 THEN c - 48
    ELSE IF c >= 97 /\ c <= 102 THEN c - 87
    ELSE IF c >= 65 /\ c <= 70 THEN c - 55
    ELSE -1

\* Buffer.from(str, 'hex'): pairs of digits are decoded until the string ends
\* or a pair holds a unit that is no hex digit; an odd last unit is dropped
RECURSIVE HexDecode(_)
HexDecode(s) ==
    IF Len(s) < 2 THEN <<>>
    ELSE IF HexVal(s[1]) < 0 \/ HexVal(s[2]) < 0 THEN <<>>
    ELSE <<HexVal(s[1]) * 16 + HexVal(s[2])>> \o HexDecode(SubSeq(s, 3, Len(s)))

\* buf.subarray(start, end): negative indices count from the end, both are
\* clamped to 0..buf.length, an empty range gives an empty view
ClampIndex(i, n) == IF i < 0 THEN Max(n + i, 0) ELSE Min(i, n)

subarray(buf, start, end) ==
    LET s == ClampIndex(start, Len(buf))
        e == ClampIndex(end, Len(buf))
    IN  IF e <= s THEN <<>> ELSE SubSeq(buf, s + 1, e)

\* String.prototype.toLowerCase on ASCII letters
LowerUnit(c) == IF c >= 65 /\ c <= 90 THEN c + 32 ELSE c
ToLower(s) == [i \in 1..Len(s) |-> LowerUnit(s[i])]

(***************************************************************************)
(* The cryptography provider (node:crypto over OpenSSL), as the engine     *)
(* uses it.  The block cipher is a stand-in with the provider's lengths    *)
(* (stream modes keep the length, CBC pads to whole 16-byte blocks) and    *)
(* the provider's checks; authentication is ideal: a tag verifies exactly  *)
(* for a (cipher, key, nonce, ciphertext, tag) the provider produced.      *)
(***************************************************************************)
ProviderBits == {s_128, s_192, s_256}
ProviderModes == {s_cbc, s_gcm, s_ccm, s_ocb}
AeadModes == {s_gcm, s_ccm, s_ocb}

\* the provider finds a cipher by name without regard to letter case
CipherInfo(alg) ==
    LET segs == Split(ToLower(alg), Dash)
    IN  IF Len(segs) = 3 /\ segs[1] = s_aes /\ segs[2] \in ProviderBits
           /\ segs[3] \in ProviderModes
        THEN [known |-> TRUE, name |-> ToLower(alg),
              keyLen |-> DigitsValue(segs[2], 0) \div 8, mode |-> segs[3]]
        ELSE [known |-> FALSE, name |-> <<>>, keyLen |-> 0, mode |-> <<>>]

IvAccepted(mode, n) ==
    IF mode = s_cbc THEN n = 16
    ELSE IF mode = s_gcm THEN n >= 1
    ELSE IF mode = s_ccm THEN n >= 7 /\ n <= 13
    ELSE n >= 1 /\ n <= 15

\* createCipheriv / createDecipheriv: "" when the context is created, else
\* the error thrown
createCipheriv(alg, keyBuf, nonceBuf) ==
    LET info == CipherInfo(alg)
    IN  IF ~info.known THEN "Unknown cipher"
        ELSE IF Len(keyBuf) # info.keyLen THEN "Invalid key length"
        ELSE IF ~IvAccepted(info.mode, Len(nonceBuf)) THEN "Invalid initialization vector"
        ELSE ""

Keystream(keyBuf, nonceBuf, i) == (SumSeq(keyBuf) + SumSeq(nonceBuf) + 7 * i) % 256

Pkcs7Pad(pt) ==
    LET p == 16 - (Len(pt) % 16) IN pt \o [i \in 1..p |-> p]

\* cipher.update(data) followed by cipher.final(): the ciphertext bytes
CipherBytes(mode, keyBuf, nonceBuf, pt) ==
    LET padded == IF mode = s_cbc THEN Pkcs7Pad(pt) ELSE pt
    IN  [i \in 1..Len(padded) |-> (padded[i] + Keystream(keyBuf, nonceBuf, i)) % 256]

\* cipher.getAuthTag(): authTagLength bytes
AuthTagBytes(keyBuf, nonceBuf, ct) ==
    [j \in 1..DEFAULT_AUTH_TAG_LENGTH |->
        (SumSeq(ct) + SumSeq(keyBuf) + 3 * SumSeq(nonceBuf) + Len(ct) + 17 * j) % 256]

RawDecipher(keyBuf, nonceBuf, ct) ==
    [i \in 1..Len(ct) |-> (ct[i] + 256 - Keystream(keyBuf, nonceBuf, i)) % 256]

PaddingOk(pt) ==
    /\ Len(pt) > 0
    /\ Len(pt) % 16 = 0
    /\ LET p == pt[Len(pt)]
       IN  /\ p >= 1
           /\ p <= 16
           /\ \A i \in (Len(pt) - p + 1)..Len(pt) : pt[i] = p

Authentic(info, keyBuf, nonceBuf, ct, tagSet, tag, iss) ==
    tagSet /\ <<info.name, keyBuf, nonceBuf, ct, tag>> \in iss

\* decipher.setAuthTag(tag): "" or the error thrown
setAuthTag(tag) ==
    IF Len(tag) # DEFAULT_AUTH_TAG_LENGTH THEN "Invalid authentication tag length" ELSE ""

\* decipher.update(ct): bytes released before final() is called.  CBC holds
\* the last block back; GCM and OCB release the plaintext unverified; CCM
\* verifies first and releases nothing when the tag is wrong.
DecipherUpdate(info, keyBuf, nonceBuf, ct, tagSet, tag, iss) ==
    LET raw == RawDecipher(keyBuf, nonceBuf, ct)
    IN  IF info.mode = s_cbc
        THEN IF Len(ct) = 0 THEN <<>>
             ELSE SubSeq(raw, 1, 16 * ((Len(ct) - 1) \div 16))
        ELSE IF info.mode = s_ccm
        THEN IF Authentic(info, keyBuf, nonceBuf, ct, tagSet, tag, iss) THEN raw ELSE <<>>
        ELSE raw

\* decipher.final(): the last bytes, or the error thrown
DecipherFinal(info, keyBuf, nonceBuf, ct, tagSet, tag, iss) ==
    LET raw == RawDecipher(keyBuf, nonceBuf, ct)
    IN  IF info.mode = s_cbc
        THEN IF Len(ct) % 16 # 0 THEN [err |-> "wrong final block length", bytes |-> <<>>]
             ELSE IF ~PaddingOk(raw) THEN [err |-> "bad decrypt", bytes |-> <<>>]
             ELSE [err |-> "",
                   bytes |-> SubSeq(raw, Len(raw) - 15, Len(raw) - raw[Len(raw)])]
        ELSE IF Authentic(info, keyBuf, nonceBuf, ct, tagSet, tag, iss)
        THEN [err |-> "", bytes |-> <<>>]
        ELSE [err |-> "Unsupported state or unable to authenticate data", bytes |-> <<>>]

\* keyUtil.generateRandomIV(size): the hex text of size random bytes; r is
\* the draw of the random source
generateRandomIV(size, r) ==
    HexEncode([i \in 1..size |-> (37 * r + 11 * i) % 256])

(***************************************************************************)
(* encrypt                                                                 *)
(***************************************************************************)
\* key.length !== metaAlg.expectedKeyLen
KeyLengthInvalid_lessThan(k, meta) ==
    ~meta.expectedKeyLen.nan /\ Len(k) * meta.expectedKeyLen.den < meta.expectedKeyLen.num

KeyLengthInvalid(k, meta) == StrictNotEqual(Len(k), meta.expectedKeyLen)

\* SUPPORTED_AUTH_TAG_MODES.includes(metaAlg.mode)
IsAuthTagMode_lowered(mode) == ToLower(mode) \in SUPPORTED_AUTH_TAG_MODES

IsAuthTagMode(mode) == mode \in SUPPORTED_AUTH_TAG_MODES

\* encrypted += Buffer.from(cipher.getAuthTag().toString('hex')): the hex text
\* of the tag becomes a buffer of its UTF-8 bytes, which += turns back to text
AppendAuthTag_tagFirst(encrypted, tag) ==
    Utf8Decode(Utf8Encode(HexEncode(tag))) \o encrypted

AppendAuthTag(encrypted, tag) ==
    encrypted \o Utf8Decode(Utf8Encode(HexEncode(tag)))

EncFail(err, calls, meta) ==
    [ok |-> FALSE, err |-> err, calls |-> calls, meta |-> meta,
     nonce |-> <<>>, encrypted |-> <<>>, ct |-> <<>>, tag |-> <<>>, tagRead |-> FALSE]

encrypt(alg, k, data, r) ==
    LET m == getMetaFromAlgorithm(alg)
    IN  IF ~m.ok THEN EncFail(m.err, <<>>, NoMeta)
        ELSE IF KeyLengthInvalid(k, m.meta)
        THEN EncFail("invalid key length", <<>>, m.meta)
        ELSE
        LET nonce == generateRandomIV(m.meta.ivLen, r)
            nonceBuf == HexDecode(nonce)
            keyBuf == Utf8Encode(k)
            created == createCipheriv(alg, keyBuf, nonceBuf)
        IN  IF created # ""
            THEN EncFail(created, <<"generateRandomIV", "createCipheriv">>, m.meta)
            ELSE
            LET info == CipherInfo(alg)
                ct == CipherBytes(info.mode, keyBuf, nonceBuf, Utf8Encode(data))
                tag == IF info.mode \in AeadModes
                       THEN AuthTagBytes(keyBuf, nonceBuf, ct) ELSE <<>>
                hexCt == HexEncode(ct)
                auth == IsAuthTagMode(m.meta.mode)
            IN  [ok |-> TRUE, err |-> "",
                 calls |-> <<"generateRandomIV", "createCipheriv", "update", "final">>
                           \o (IF auth THEN <<"getAuthTag">> ELSE <<>>),
                 meta |-> m.meta,
                 nonce |-> nonce,
                 encrypted |-> IF auth THEN AppendAuthTag(hexCt, tag) ELSE hexCt,
                 ct |-> ct, tag |-> tag, tagRead |-> auth]

\* what the provider has produced once encrypt(alg, k, data, r) returns
IssuedBy(alg, k, out) ==
    IF out.ok /\ CipherInfo(alg).mode \in AeadModes
    THEN {<<CipherInfo(alg).name, Utf8Encode(k), HexDecode(out.nonce), out.ct, out.tag>>}
    ELSE {}

(***************************************************************************)
(* decrypt                                                                 *)
(***************************************************************************)
\* typeof data
JsTypeof(data) == IF data.type = "null" THEN "object" ELSE data.type

\* lines 89-92: the tag handed to setAuthTag and the text handed to update
SplitAuthTag_tagFirst(buf) ==
    [tag |-> subarray(buf, 0, DEFAULT_AUTH_TAG_LENGTH),
     text |-> subarray(buf, DEFAULT_AUTH_TAG_LENGTH, Len(buf))]

SplitAuthTag(buf) ==
    LET sFrom == Len(buf) - DEFAULT_AUTH_TAG_LENGTH
    IN  [tag |-> subarray(buf, sFrom, Len(buf)), text |-> subarray(buf, 0, sFrom)]

DecFail(err, calls, tagSet, tag, fed) ==
    [ok |-> FALSE, err |-> err, calls |-> calls, out |-> <<>>,
     tagSet |-> tagSet, tag |-> tag, fed |-> fed, buf |-> <<>>, decoded |-> FALSE]

\* lines 97-99: decipher.update, decipher.final, the text returned
Finish_withoutFinal(calls, updated, final, tagSet, tag, fed) ==
    [ok |-> TRUE, err |-> "", calls |-> calls \o <<"update">>,
     out |-> Utf8Decode(updated), tagSet |-> tagSet, tag |-> tag, fed |-> fed,
     buf |-> <<>>, decoded |-> FALSE]

Finish(calls, updated, final, tagSet, tag, fed) ==
    IF final.err # ""
    THEN DecFail(final.err, calls \o <<"update", "final">>, tagSet, tag, fed)
    ELSE [ok |-> TRUE, err |-> "", calls |-> calls \o <<"update", "final">>,
          out |-> Utf8Decode(updated \o final.bytes),
          tagSet |-> tagSet, tag |-> tag, fed |-> fed, buf |-> <<>>, decoded |-> FALSE]

RunDecipher(calls, info, keyBuf, nonceBuf, text, tagSet, tag, iss) ==
    Finish(calls,
           DecipherUpdate(info, keyBuf, nonceBuf, text, tagSet, tag, iss),
           DecipherFinal(info, keyBuf, nonceBuf, text, tagSet, tag, iss),
           tagSet, tag, text)

decrypt(alg, k, data, iss) ==
    IF JsTypeof(data) # "object"
    THEN DecFail("error: data param should be object", <<>>, FALSE, <<>>, <<>>)
    ELSE
    LET m == getMetaFromAlgorithm(alg)
        c1 == <<"getMetaFromAlgorithm">>
        c2 == c1 \o <<"keyLength">>
        c3 == c2 \o <<"createDecipheriv">>
    IN  IF ~m.ok THEN DecFail(m.err, c1, FALSE, <<>>, <<>>)
        ELSE IF KeyLengthInvalid(k, m.meta)
        THEN DecFail("invalid key length", c2, FALSE, <<>>, <<>>)
        \* data.nonce of null, Buffer.from(undefined, 'hex')
        ELSE IF data.type = "null" \/ ~data.hasNonce
        THEN DecFail("TypeError", c2, FALSE, <<>>, <<>>)
        ELSE
        LET nonceBuf == HexDecode(data.nonce)
            keyBuf == Utf8Encode(k)
            created == createCipheriv(alg, keyBuf, nonceBuf)
            info == CipherInfo(alg)
        IN  IF created # "" THEN DecFail(created, c3, FALSE, <<>>, <<>>)
            ELSE IF ~data.hasEncrypted THEN DecFail("TypeError", c3, FALSE, <<>>, <<>>)
            ELSE
            LET buf == HexDecode(data.encrypted)
                parts == SplitAuthTag(buf)
                tagErr == setAuthTag(parts.tag)
                r == IF IsAuthTagMode(m.meta.mode)
                     THEN IF tagErr # ""
                          THEN DecFail(tagErr, c3 \o <<"setAuthTag">>, FALSE, parts.tag, <<>>)
                          ELSE RunDecipher(c3 \o <<"setAuthTag">>, info, keyBuf, nonceBuf,
                                           parts.text, TRUE, parts.tag, iss)
                     ELSE RunDecipher(c3, info, keyBuf, nonceBuf, buf, FALSE, <<>>, iss)
            IN  [r EXCEPT !.buf = buf, !.decoded = TRUE]

(***************************************************************************)
(* Inputs of the cipher engine.                                            *)
(***************************************************************************)
\* identifiers as segment lists; the text handed to the engine is their Join
SupportedSegs == {<<s_aes, b, m>> : b \in ProviderBits, m \in ProviderModes}

OtherSegs ==
    { <<s_aes, s_128, s_GCM>>, <<s_aes, s_256, s_GCM>>, <<s_aes, s_128, s_CBC>>,
      <<s_aes, s_192, s_Ocb>>, <<s_aes, s_128, s_xyz>>, <<s_aes, s_abc, s_gcm>>,
      <<s_aes, s_12, s_gcm>>, <<s_aes256gcm>>, <<s_aes, s_256>>,
      <<s_aes, s_256, s_gcm, s_x>> }

AlgSegs == SupportedSegs \cup OtherSegs

\* the decimal value of the key-size segments above (none for "abc")
DeclaredBits(seg) ==
    IF seg = s_128 THEN 128
    ELSE IF seg = s_192 THEN 192
    ELSE IF seg = s_256 THEN 256
    ELSE IF seg = s_12 THEN 12
    ELSE -1

\* an ASCII key of n characters
AsciiKey(n) == [i \in 1..n |-> 97 + (i % 26)]

\* the same with its first character replaced by U+00E9 (two UTF-8 bytes)
AccentKey(n) == [AsciiKey(n) EXCEPT ![1] = 233]

Keys == {AsciiKey(15), AsciiKey(16), AsciiKey(24), AsciiKey(32), AsciiKey(33),
         AccentKey(15), AccentKey(16)}

\* "hello world"
s_hello == <<104, 101, 108, 108, 111, 32, 119, 111, 114, 108, 100>>

Plaintexts == {<<>>, s_hello, <<104, 233>>, AsciiKey(16)}

\* ---- values handed to decrypt as its data argument -----------------------
Obj(hasNonce, nonce, hasEncrypted, encrypted) ==
    [type |-> "object", hasNonce |-> hasNonce, nonce |-> nonce,
     hasEncrypted |-> hasEncrypted, encrypted |-> encrypted]

NonObj(t) ==
    [type |-> t, hasNonce |-> FALSE, nonce |-> <<>>,
     hasEncrypted |-> FALSE, encrypted |-> <<>>]

\* flip bit b of the code unit at position p
FlipBit(s, p, b) ==
    LET w == IF b = 0 THEN 1 ELSE IF b = 1 THEN 2 ELSE IF b = 2 THEN 4
             ELSE IF b = 3 THEN 8 ELSE IF b = 4 THEN 16 ELSE IF b = 5 THEN 32
             ELSE IF b = 6 THEN 64 ELSE 128
    IN  [s EXCEPT ![p] = IF (s[p] \div w) % 2 = 1 THEN s[p] - w ELSE s[p] + w]

\* a buffer of n bytes
TestBuf(n) == [i \in 1..n |-> (29 * i + n) % 256]

\* the nonce length the provider wants for the identifier
WantedIvLen(alg) == IF CipherInfo(alg).mode = s_cbc THEN 16 ELSE 12

Payloads(alg, e) ==
    \* the result of the preceding encrypt, as returned
    (IF e.ok THEN {[kind |-> "result", pos |-> 0, bit |-> 0,
                    data |-> Obj(TRUE, e.nonce, TRUE, e.encrypted)]}
     ELSE {})
    \cup
    \* the same with one bit of the encrypted field flipped
    (IF e.ok THEN {[kind |-> "tampered", pos |-> p, bit |-> b,
                    data |-> Obj(TRUE, e.nonce, TRUE, FlipBit(e.encrypted, p, b))]
                   : p \in 1..Len(e.encrypted), b \in 0..7}
     ELSE {})
    \cup
    \* values that are no EncryptionResult
    {[kind |-> "malformed", pos |-> 0, bit |-> 0, data |-> d] :
        d \in {NonObj("string"), NonObj("number"), NonObj("undefined"), NonObj("null"),
               Obj(FALSE, <<>>, FALSE, <<>>),
               Obj(TRUE, generateRandomIV(WantedIvLen(alg), 1), FALSE, <<>>),
               Obj(FALSE, <<>>, TRUE, HexEncode(TestBuf(16)))}}
    \cup
    \* well-formed objects around arbitrary buffers of every length up to the bound
    {[kind |-> "buffer", pos |-> n, bit |-> 0,
      data |-> Obj(TRUE, generateRandomIV(WantedIvLen(alg), 1), TRUE, HexEncode(TestBuf(n)))]
        : n \in 0..MaxBufLen}

(***************************************************************************)
(* State of the cipher engine model.                                       *)
(***************************************************************************)
NoRes == [segs |-> <<>>, alg |-> <<>>, out |-> getMetaFromAlgorithm(<<>>)]

NoEnc == [segs |-> <<>>, alg |-> <<>>, key |-> <<>>, data |-> <<>>, r |-> 0,
          out |-> EncFail("", <<>>, NoMeta)]

NoDec == [alg |-> <<>>, key |-> <<>>, kind |-> "none", pos |-> 0, bit |-> 0,
          data |-> NonObj("undefined"),
          out |-> DecFail("", <<>>, FALSE, <<>>, <<>>)]

\* Calls share no state, so a behaviour of the model is one exchange: a call
\* made on the fresh module, and for encrypt the decrypt call that follows it.

\* getMetaFromAlgorithm(alg)
Resolve ==
    \E segs \in AlgSegs :
        /\ op = "none"
        /\ op' = "resolve"
        /\ res' = [segs |-> segs, alg |-> Join(segs, Dash),
                   out |-> getMetaFromAlgorithm(Join(segs, Dash))]
        /\ enc' = NoEnc
        /\ dec' = NoDec
        /\ issued' = {}
        /\ UNCHANGED rsaVars

\* encrypt(alg, key, data)
Encrypt ==
    \E segs \in AlgSegs, k \in Keys, data \in Plaintexts, r \in 1..NumNonces :
        LET alg == Join(segs, Dash)
            out == encrypt(alg, k, data, r)
        IN  /\ op = "none"
            /\ op' = "encrypt"
            /\ enc' = [segs |-> segs, alg |-> alg, key |-> k, data |-> data, r |-> r,
                       out |-> out]
            /\ issued' = IssuedBy(alg, k, out)
            /\ res' = NoRes
            /\ dec' = NoDec
            /\ UNCHANGED rsaVars

\* decrypt(alg, key, data), with the identifier and the key of the preceding
\* encrypt call
Decrypt ==
    /\ op = "encrypt"
    /\ \E p \in Payloads(enc.alg, enc.out) :
        /\ op' = "decrypt"
        /\ dec' = [alg |-> enc.alg, key |-> enc.key, kind |-> p.kind, pos |-> p.pos,
                   bit |-> p.bit, data |-> p.data,
                   out |-> decrypt(enc.alg, enc.key, p.data, issued)]
        /\ UNCHANGED <<res, enc, issued>>
        /\ UNCHANGED rsaVars

(***************************************************************************)
(* Key manager: generateRSAKeyPair                                         *)
(***************************************************************************)
\* keyUtil.KEY_SIZE_1KB, keyUtil.KEY_SIZE_2KB
KEY_SIZE_1KB == 1024
KEY_SIZE_2KB == 2048

\* sizes handed to generateRSAKeyPair; given = FALSE is a call without the
\* argument
KeySizeArgs ==
    {[given |-> FALSE, value |-> 0]}
    \cup {[given |-> TRUE, value |-> v] : v \in {512, KEY_SIZE_1KB, KEY_SIZE_2KB, 4096}}

s_pw == <<112, 119>>

\* lines 36, 40-46: the modulusLength of the options; 0 stands for undefined
ModulusLength(keySizeArg) ==
    LET keySize == IF keySizeArg.given THEN keySizeArg.value ELSE KEY_SIZE_2KB
    IN  IF keySize # KEY_SIZE_1KB \/ keySize # KEY_SIZE_2KB THEN KEY_SIZE_2KB ELSE 0

\* lines 45-61: the options handed to the provider's generateKeyPair
KeyPairOptions(keySizeArg, passphrase, encrypted) ==
    [modulusLength |-> ModulusLength(keySizeArg),
     publicType |-> "spki", privateType |-> "pkcs8", format |-> "pem",
     cipher |-> IF encrypted THEN "aes-256-cbc" ELSE "",
     passphrase |-> IF encrypted THEN passphrase ELSE <<>>]

\* the provider rejects a missing or too small modulus length
ProviderAcceptsModulus(n) == n >= 512

NoGen == [state |-> "idle", keySize |-> [given |-> FALSE, value |-> 0],
          passphrase |-> <<>>, encrypted |-> FALSE,
          options |-> KeyPairOptions([given |-> FALSE, value |-> 0], <<>>, FALSE)]

(***************************************************************************)
(* Key manager: key texts.  A key text is a marker ('V' PKCS8 private,     *)
(* 'R' PKCS1 private, 'U' SPKI public), a body of 'k' and line feeds the   *)
(* parser skips; the canonical text is marker, body, one line feed.        *)
(***************************************************************************)
MarkPrivate == 86
MarkPkcs1 == 82
MarkPublic == 85
BodyUnit == 107
LineFeed == 10

KeyAlphabet == {MarkPrivate, MarkPkcs1, MarkPublic, BodyUnit, LineFeed}

RECURSIVE SeqsUpTo(_, _)
SeqsUpTo(S, n) ==
    IF n = 0 THEN {<<>>}
    ELSE LET shorter == SeqsUpTo(S, n - 1)
         IN  shorter \cup {Append(t, c) : t \in {u \in shorter : Len(u) = n - 1}, c \in S}

KeyTexts == SeqsUpTo(KeyAlphabet, MaxKeyBody + 2)

RECURSIVE DropUnit(_, _)
DropUnit(s, c) ==
    IF s = <<>> THEN <<>>
    ELSE IF Head(s) = c THEN DropUnit(Tail(s), c)
    ELSE <<Head(s)>> \o DropUnit(Tail(s), c)

\* the provider's parse of a key text: the kind and body, or a failure
ParseKey(text) ==
    LET t == DropUnit(text, LineFeed)
    IN  IF Len(t) >= 2 /\ t[1] \in {MarkPrivate, MarkPkcs1, MarkPublic}
           /\ \A i \in 2..Len(t) : t[i] = BodyUnit
        THEN [ok |-> TRUE, kind |-> IF t[1] = MarkPublic THEN "public" ELSE "private",
              body |-> Tail(t)]
        ELSE [ok |-> FALSE, kind |-> "", body |-> <<>>]

KeyErr(e) == [ok |-> FALSE, err |-> e, text |-> <<>>]
KeyOk(t) == [ok |-> TRUE, err |-> "", text |-> t]

\* createPrivateKey(data).export({type: pkcs8, format: pem})
loadPrivateKey(data) ==
    LET k == ParseKey(data)
    IN  IF ~k.ok \/ k.kind # "private" THEN KeyErr("KeyParseError")
        ELSE KeyOk(<<MarkPrivate>> \o k.body \o <<LineFeed>>)

\* createPublicKey(data).export({type: spki, format: pem}); a private key
\* text yields its public half
loadPublicKey(data) ==
    LET k == ParseKey(data)
    IN  IF ~k.ok THEN KeyErr("KeyParseError")
        ELSE KeyOk(<<MarkPublic>> \o k.body \o <<LineFeed>>)

(***************************************************************************)
(* base64: buffer.toString('base64') and Buffer.from(text, 'base64')       *)
(***************************************************************************)
B64Digit(v) ==
    IF v < 26 THEN 65 + v
    ELSE IF v < 52 THEN 97 + (v - 26)
    ELSE IF v < 62 THEN 48 + (v - 52)
    ELSE IF v = 62 THEN 43 ELSE 47

B64Val(c) ==
    IF c >= 65 /\ c <= 90 THEN c - 65
    ELSE IF c >= 97 /\ c <= 122 THEN c - 97 + 26
    ELSE IF c >= 48 /\ c <= 57 THEN c - 48 + 52
    ELSE IF c = 43 THEN 62
    ELSE IF c = 47 THEN 63
    ELSE -1

B64Pad == 61

RECURSIVE Base64Encode(_)
Base64Encode(b) ==
    IF b = <<>> THEN <<>>
    ELSE IF Len(b) = 1
    THEN <<B64Digit(b[1] \div 4), B64Digit((b[1] % 4) * 16), B64Pad, B64Pad>>
    ELSE IF Len(b) = 2
    THEN <<B64Digit(b[1] \div 4), B64Digit((b[1] % 4) * 16 + b[2] \div 16),
           B64Digit((b[2] % 16) * 4), B64Pad>>
    ELSE <<B64Digit(b[1] \div 4), B64Digit((b[1] % 4) * 16 + b[2] \div 16),
           B64Digit((b[2] % 16) * 4 + b[3] \div 64), B64Digit(b[3] % 64)>>
         \o Base64Encode(SubSeq(b, 4, Len(b)))

\* the leading run of base64 digits of s, as sextets (decoding ends at the
\* padding)
RECURSIVE Sextets(_)
Sextets(s) ==
    IF s = <<>> \/ B64Val(Head(s)) < 0 THEN <<>>
    ELSE <<B64Val(Head(s))>> \o Sextets(Tail(s))

RECURSIVE SextetsToBytes(_)
SextetsToBytes(x) ==
    IF Len(x) < 2 THEN <<>>
    ELSE IF Len(x) = 2 THEN <<x[1] * 4 + x[2] \div 16>>
    ELSE IF Len(x) = 3 THEN <<x[1] * 4 + x[2] \div 16, (x[2] % 16) * 16 + x[3] \div 4>>
    ELSE <<x[1] * 4 + x[2] \div 16, (x[2] % 16) * 16 + x[3] \div 4, (x[3] % 4) * 64 + x[4]>>
         \o SextetsToBytes(SubSeq(x, 5, Len(x)))

Base64Decode(s) == SextetsToBytes(Sextets(s))

\* common.bufferToString(data): the text of a Buffer, a string as it is;
\* inputs here are strings
bufferToString(data) == data

\* this.loadPrivateKey / this.loadPublicKey, picked by name
LoadFn(fn, data) == IF fn = "private" THEN loadPrivateKey(data) ELSE loadPublicKey(data)

\* lines 14-18; fn names the loadFn argument
loadKeyFromBase64_noDecode(fn, data) == LoadFn(fn, bufferToString(data))

loadKeyFromBase64(fn, data) ==
    LET newData == Utf8Decode(Base64Decode(bufferToString(data)))
    IN  LoadFn(fn, newData)

\* lines 126 and 135: Buffer.from(this.loadXKey(data)).toString('base64');
\* Buffer.from of the thrown error never happens, the error propagates
loadKeyAsBase64(fn, data) ==
    LET pem == LoadFn(fn, data)
    IN  IF ~pem.ok THEN pem ELSE KeyOk(Base64Encode(Utf8Encode(pem.text)))

NoKey == [fn |-> "none", kind |-> "", input |-> <<>>, out |-> KeyErr(""),
          chained |-> FALSE, orig |-> <<>>]

(***************************************************************************)
(* Key manager operations.                                                 *)
(***************************************************************************)
\* generateRSAKeyPair(keySize, passphrase, encrypted): the options are built
\* and the provider's generateKeyPair is started; the promise is pending
GenerateRSAKeyPair ==
    \E ks \in KeySizeArgs, pass \in {<<>>, s_pw}, e \in BOOLEAN :
        /\ op = "none"
        /\ op' = "generate"
        /\ gen' = [state |-> "pending", keySize |-> ks, passphrase |-> pass,
                   encrypted |-> e, options |-> KeyPairOptions(ks, pass, e)]
        /\ key' = NoKey
        /\ UNCHANGED aesVars

\* the provider's callback: reject(err) or resolve({publicKey, privateKey})
KeyPairCallback ==
    /\ gen.state = "pending"
    /\ op' = "generate"
    /\ gen' = [gen EXCEPT !.state =
                  IF ProviderAcceptsModulus(gen.options.modulusLength)
                  THEN "resolved" ELSE "rejected"]
    /\ UNCHANGED key
    /\ UNCHANGED aesVars

\* loadPrivateKey(data), loadPublicKey(data)
LoadKey ==
    \E fn \in {"private", "public"}, data \in KeyTexts :
        /\ op = "none"
        /\ op' = "load"
        /\ key' = [fn |-> "load", kind |-> fn, input |-> data, out |-> LoadFn(fn, data),
                   chained |-> FALSE, orig |-> <<>>]
        /\ gen' = NoGen
        /\ UNCHANGED aesVars

\* loadPrivateKeyAsBase64(data), loadPublicKeyAsBase64(data)
LoadKeyAsBase64 ==
    \E fn \in {"private", "public"}, data \in KeyTexts :
        /\ op = "none"
        /\ op' = "load"
        /\ key' = [fn |-> "asBase64", kind |-> fn, input |-> data,
                   out |-> loadKeyAsBase64(fn, data), chained |-> FALSE, orig |-> <<>>]
        /\ gen' = NoGen
        /\ UNCHANGED aesVars

\* loadPrivateKeyFromBase64(data), loadPublicKeyFromBase64(data) on the
\* output of the preceding AsBase64 call of the same kind
LoadKeyFromBase64 ==
    /\ key.fn = "asBase64"
    /\ key.out.ok
    /\ op' = "load"
    /\ key' = [fn |-> "fromBase64", kind |-> key.kind, input |-> key.out.text,
               out |-> loadKeyFromBase64(key.kind, key.out.text),
               chained |-> TRUE, orig |-> key.input]
    /\ gen' = NoGen
    /\ UNCHANGED aesVars

\* the same loaders on the base64 text of any key text
LoadKeyFromBase64Text ==
    \E fn \in {"private", "public"}, data \in KeyTexts :
        /\ op = "none"
        /\ op' = "load"
        /\ key' = [fn |-> "fromBase64", kind |-> fn,
                   input |-> Base64Encode(Utf8Encode(data)),
                   out |-> loadKeyFromBase64(fn, Base64Encode(Utf8Encode(data))),
                   chained |-> FALSE, orig |-> data]
        /\ gen' = NoGen
        /\ UNCHANGED aesVars

(***************************************************************************)
(* Specifications.                                                         *)
(***************************************************************************)
Init ==
    /\ op = "none"
    /\ res = NoRes
    /\ enc = NoEnc
    /\ dec = NoDec
    /\ issued = {}
    /\ gen = NoGen
    /\ key = NoKey

Next ==
    \/ Resolve
    \/ Encrypt
    \/ Decrypt

\* the cipher engine
Spec == Init /\ [][Next]_vars

NextKey ==
    \/ GenerateRSAKeyPair
    \/ KeyPairCallback
    \/ LoadKey
    \/ LoadKeyAsBase64
    \/ LoadKeyFromBase64
    \/ LoadKeyFromBase64Text

\* the key manager
SpecKey == Init /\ [][NextKey]_vars

(***************************************************************************)
(* Vocabulary of the properties.                                           *)
(***************************************************************************)
Called == op \in {"encrypt", "decrypt"}

\* the identifier has at least 3 segments, so getMetaFromAlgorithm resolves it
Resolves(segs) == Len(segs) >= 3

\* the key has exactly (declared bits) / 8 characters
KeyLengthRight(segs, k) ==
    Resolves(segs) /\ DeclaredBits(segs[2]) >= 0 /\ Len(k) * 8 = DeclaredBits(segs[2])

IsHexText(s) == \A i \in 1..Len(s) : HexVal(s[i]) >= 0

Has(calls, name) == \E i \in 1..Len(calls) : calls[i] = name

Before(calls, a, b) ==
    \E i, j \in 1..Len(calls) : i < j /\ calls[i] = a /\ calls[j] = b

\* the last n bytes of buf, all of it when it is shorter
LastBytes(buf, n) == SubSeq(buf, Max(Len(buf) - n, 0) + 1, Len(buf))

\* buf without its last n bytes
ButLastBytes(buf, n) == SubSeq(buf, 1, Max(Len(buf) - n, 0))

(***************************************************************************)
(* C1  Round trip: for a supported identifier and a key of bits/8          *)
(* characters encrypt succeeds, and decrypt of what it returned gives back *)
(* the plaintext.                                                          *)
(***************************************************************************)
C1_RoundTrip ==
    (Called /\ enc.segs \in SupportedSegs /\ KeyLengthRight(enc.segs, enc.key)) =>
        /\ enc.out.ok
        /\ (op = "decrypt" /\ dec.kind = "result") =>
               (dec.out.ok /\ dec.out.out = enc.data)

(***************************************************************************)
(* C2  Key-length enforcement, as claimed: with a resolving identifier and *)
(* a key of another length both encrypt and decrypt fail with the          *)
(* invalid-key-length error, no nonce is generated and no cipher created.  *)
(***************************************************************************)
C2_Original ==
    (Called /\ Resolves(enc.segs) /\ ~KeyLengthRight(enc.segs, enc.key)) =>
        /\ ~enc.out.ok /\ enc.out.err = "invalid key length" /\ enc.out.calls = <<>>
        /\ op = "decrypt" =>
              /\ ~dec.out.ok /\ dec.out.err = "invalid key length"
              /\ ~Has(dec.out.calls, "createDecipheriv")

\* C2 as amended: encrypt fails with the invalid-key-length error; decrypt
\* fails with it when its data argument passes the typeof-object check and
\* with the data-param error otherwise; in every case no nonce is generated
\* and no cipher context is created or used.
C2_KeyLengthEnforced ==
    (Called /\ Resolves(enc.segs) /\ ~KeyLengthRight(enc.segs, enc.key)) =>
        /\ ~enc.out.ok /\ enc.out.err = "invalid key length" /\ enc.out.calls = <<>>
        /\ op = "decrypt" =>
              /\ ~dec.out.ok
              /\ dec.out.err = IF dec.data.type \in {"object", "null"}
                               THEN "invalid key length"
                               ELSE "error: data param should be object"
              /\ \A i \in 1..Len(dec.out.calls) :
                    dec.out.calls[i] \in {"getMetaFromAlgorithm", "keyLength"}

C2_Witness ==
    /\ op = "decrypt"
    /\ Resolves(enc.segs) /\ ~KeyLengthRight(enc.segs, enc.key)
    /\ enc.segs \in SupportedSegs
    /\ Len(enc.key) = 33
    /\ dec.data.type = "object" /\ dec.data.hasNonce /\ dec.data.hasEncrypted
    /\ dec.out.err = "invalid key length"

(***************************************************************************)
(* C3  EncryptionResult framing: after a successful encrypt the nonce is   *)
(* 2 * ivLengthBytes hex characters, and encrypted is hex(ciphertext)      *)
(* followed by the hex of the 16-byte tag for gcm, ccm, ocb and            *)
(* hex(ciphertext) alone for cbc; aes-256-gcm with the 11-byte plaintext   *)
(* gives 24 and 54 hex characters.                                         *)
(***************************************************************************)
C3_Framing ==
    (op = "encrypt" /\ enc.out.ok /\ enc.segs \in SupportedSegs) =>
        /\ IsHexText(enc.out.nonce)
        /\ Len(enc.out.nonce) = 2 * (IF enc.segs[3] = s_cbc THEN 16 ELSE 12)
        /\ IsHexText(enc.out.encrypted)
        /\ enc.segs[3] \in AeadModes =>
              /\ Len(enc.out.tag) = 16
              /\ HexDecode(enc.out.encrypted) = enc.out.ct \o enc.out.tag
              /\ enc.out.encrypted = HexEncode(enc.out.ct) \o HexEncode(enc.out.tag)
              /\ Len(enc.out.ct) = Len(Utf8Encode(enc.data))
        /\ enc.segs[3] = s_cbc =>
              /\ enc.out.encrypted = HexEncode(enc.out.ct)
              /\ Len(enc.out.ct) = 16 * (Len(Utf8Encode(enc.data)) \div 16 + 1)
        /\ (enc.segs = <<s_aes, s_256, s_gcm>> /\ enc.data = s_hello) =>
              (Len(enc.out.nonce) = 24 /\ Len(enc.out.encrypted) = 2 * (11 + 16))

C3_Witness ==
    /\ op = "encrypt" /\ enc.out.ok
    /\ enc.segs = <<s_aes, s_256, s_gcm>> /\ enc.data = s_hello
    /\ Len(enc.out.nonce) = 24 /\ Len(enc.out.encrypted) = 54

(***************************************************************************)
(* C4  Tamper detection, as claimed: in gcm, ccm and ocb, after any single *)
(* bit of the hex encrypted field is flipped, decrypt fails.               *)
(***************************************************************************)
C4_Original ==
    (op = "decrypt" /\ dec.kind = "tampered" /\ enc.segs \in SupportedSegs
        /\ enc.segs[3] \in AeadModes) => ~dec.out.ok

\* C4 as amended: a flipped bit that changes the bytes the field decodes to
\* makes decrypt fail without output; a flipped bit that leaves them
\* unchanged (the letter case of a hex digit a-f) gives the original
\* plaintext.
C4_TamperDetected ==
    (op = "decrypt" /\ dec.kind = "tampered" /\ enc.segs \in SupportedSegs
        /\ enc.segs[3] \in AeadModes) =>
        IF HexDecode(dec.data.encrypted) # HexDecode(enc.out.encrypted)
        THEN ~dec.out.ok /\ dec.out.out = <<>>
        ELSE /\ dec.out.ok /\ dec.out.out = enc.data
             /\ dec.bit = 5
             /\ enc.out.encrypted[dec.pos] \in 97..102

C4_Witness ==
    /\ op = "decrypt" /\ dec.kind = "tampered"
    /\ enc.segs = <<s_aes, s_256, s_gcm>> /\ enc.data = s_hello
    /\ HexDecode(dec.data.encrypted) # HexDecode(enc.out.encrypted)
    /\ Len(HexDecode(dec.data.encrypted)) = Len(HexDecode(enc.out.encrypted))
    /\ Has(dec.out.calls, "final")
    /\ ~dec.out.ok

(***************************************************************************)
(* C5  decrypt input validation: a data argument that is no object with    *)
(* both fields is refused with the data-param error before the identifier  *)
(* is resolved, the key checked or the cipher touched.                     *)
(***************************************************************************)
C5_InputValidation ==
    (op = "decrypt" /\ dec.kind = "malformed") =>
        /\ ~dec.out.ok
        /\ dec.out.err = "error: data param should be object"
        /\ dec.out.calls = <<>>

(***************************************************************************)
(* C6  resolveAlgorithmSpec derivation: with at least 3 segments the IV    *)
(* length is 16 exactly when the third segment is cbc and 12 otherwise,    *)
(* and the expected key length is the decimal value of the second segment  *)
(* divided by 8 (aes-128-cbc gives 16, 16, cbc); with fewer segments the   *)
(* call fails with the invalid-algorithm error.                            *)
(***************************************************************************)
C6_Derivation ==
    op = "resolve" =>
        IF Resolves(res.segs)
        THEN /\ res.out.ok
             /\ res.out.meta.ivLen = (IF res.segs[3] = s_cbc THEN 16 ELSE 12)
             /\ res.out.meta.mode = res.segs[3]
             /\ IF DeclaredBits(res.segs[2]) >= 0
                THEN /\ ~res.out.meta.expectedKeyLen.nan
                     /\ 8 * res.out.meta.expectedKeyLen.num
                            = DeclaredBits(res.segs[2]) * res.out.meta.expectedKeyLen.den
                ELSE res.out.meta.expectedKeyLen.nan
             /\ res.segs = <<s_aes, s_128, s_cbc>> =>
                   /\ ~StrictNotEqual(16, res.out.meta.expectedKeyLen)
                   /\ res.out.meta.ivLen = 16
                   /\ res.out.meta.mode = s_cbc
        ELSE ~res.out.ok /\ res.out.err = "invalid aes algorithm"

C6_Witness ==
    /\ op = "resolve"
    /\ res.segs = <<s_aes, s_128, s_cbc>>
    /\ res.out.ok
    /\ res.out.meta.ivLen = 16
    /\ ~StrictNotEqual(16, res.out.meta.expectedKeyLen)

(***************************************************************************)
(* C7  generateKeyPair modulus selection: a supported size (KEY_SIZE_1KB,  *)
(* KEY_SIZE_2KB) is the modulusLength handed to the provider, any other    *)
(* size is replaced by 2048, and the call does not fail for the size.      *)
(***************************************************************************)
C7_ModulusSelection ==
    (op = "generate") =>
        /\ gen.options.modulusLength =
              (IF ~gen.keySize.given THEN KEY_SIZE_2KB
               ELSE IF gen.keySize.value \in {KEY_SIZE_1KB, KEY_SIZE_2KB}
               THEN gen.keySize.value
               ELSE 2048)
        /\ gen.state # "rejected"

(***************************************************************************)
(* C8  Key format round trip: for a canonical key text p (loading it gives *)
(* p back) FromBase64(AsBase64(p)) = p, for private and for public keys;   *)
(* AsBase64 is the base64 text of the canonical PEM and FromBase64 is      *)
(* base64 decoding followed by canonicalisation.                           *)
(***************************************************************************)
Canonical(fn, p) == LoadFn(fn, p) = KeyOk(p)

C8_KeyRoundTrip ==
    /\ (key.fn = "fromBase64" /\ key.chained /\ Canonical(key.kind, key.orig)) =>
           key.out = KeyOk(key.orig)
    /\ (key.fn = "asBase64" /\ key.out.ok) =>
           Utf8Decode(Base64Decode(key.out.text)) = LoadFn(key.kind, key.input).text
    /\ (key.fn = "fromBase64" /\ ~key.chained) =>
           key.out = LoadFn(key.kind, key.orig)

C8_Witness ==
    /\ key.fn = "fromBase64" /\ key.chained
    /\ key.kind = "private"
    /\ Canonical("private", key.orig)
    /\ Len(key.orig) = 4
    /\ key.out = KeyOk(key.orig)

(***************************************************************************)
(* C9  Mode resolution, as claimed: the third segment is lowercased before *)
(* it is matched, so an identifier spelled with GCM, CCM, OCB or CBC in    *)
(* any letter case gets the IV length and the tag handling of its          *)
(* lowercase form.                                                         *)
(***************************************************************************)
C9_Original ==
    /\ (op = "resolve" /\ res.out.ok) =>
           /\ res.out.meta.ivLen = (IF ToLower(res.segs[3]) = s_cbc THEN 16 ELSE 12)
           /\ res.out.meta.mode = ToLower(res.segs[3])
    /\ (op = "encrypt" /\ enc.out.ok) =>
           (enc.out.tagRead <=> ToLower(enc.segs[3]) \in AeadModes)
    /\ (op = "decrypt" /\ dec.out.decoded) =>
           (Has(dec.out.calls, "setAuthTag") <=> ToLower(enc.segs[3]) \in AeadModes)

\* C9 as amended: the mode is the third segment as written, matched
\* case-sensitively: the IV length is 16 only for exactly "cbc", and the tag is
\* appended by encrypt and split off by decrypt only for exactly "gcm", "ccm",
\* "ocb"; any other spelling (GCM, Ocb, CBC) is handled as a
\* non-authenticated mode with a 12-byte IV.
C9_CaseSensitive ==
    /\ (op = "resolve" /\ res.out.ok) =>
           /\ res.out.meta.ivLen = (IF res.segs[3] = s_cbc THEN 16 ELSE 12)
           /\ res.out.meta.mode = res.segs[3]
    /\ (op = "encrypt" /\ enc.out.ok) =>
           /\ enc.out.tagRead <=> enc.segs[3] \in AeadModes
           /\ enc.segs[3] \notin AeadModes => enc.out.encrypted = HexEncode(enc.out.ct)
           /\ Len(enc.out.nonce) = 2 * (IF enc.segs[3] = s_cbc THEN 16 ELSE 12)
    /\ (op = "decrypt" /\ dec.out.decoded) =>
           (Has(dec.out.calls, "setAuthTag") <=> enc.segs[3] \in AeadModes)

C9_Witness ==
    /\ op = "encrypt" /\ enc.out.ok
    /\ enc.segs[3] = s_GCM
    /\ ~enc.out.tagRead
    /\ enc.out.encrypted = HexEncode(enc.out.ct)
    /\ Len(enc.out.nonce) = 24

(***************************************************************************)
(* C10  decrypt tag split, as claimed: in an authenticated mode, for every *)
(* decoded buffer, shorter than 16 bytes or empty included, the tag handed *)
(* to the cipher is the last 16 bytes of the buffer and the ciphertext is  *)
(* the rest, the tag being set before the ciphertext is processed; in a    *)
(* non-authenticated mode the whole buffer is the ciphertext and no tag is *)
(* set.                                                                    *)
(***************************************************************************)
C10_Original ==
    (op = "decrypt" /\ dec.out.decoded) =>
        IF enc.segs[3] \in AeadModes
        THEN /\ Has(dec.out.calls, "setAuthTag")
             /\ dec.out.tag = LastBytes(dec.out.buf, 16)
             /\ Has(dec.out.calls, "update") =>
                   /\ dec.out.fed = ButLastBytes(dec.out.buf, 16)
                   /\ Before(dec.out.calls, "setAuthTag", "update")
        ELSE /\ ~Has(dec.out.calls, "setAuthTag")
             /\ ~dec.out.tagSet
             /\ dec.out.fed = dec.out.buf

\* C10 as amended: the claim for decoded buffers of at least 16 bytes; from a
\* shorter buffer the tag handed to setAuthTag is a suffix of fewer than 16
\* bytes (not always the whole buffer), setAuthTag refuses it and no
\* ciphertext is processed.
C10_TagSplit ==
    (op = "decrypt" /\ dec.out.decoded) =>
        IF enc.segs[3] \in AeadModes
        THEN /\ Has(dec.out.calls, "setAuthTag")
             /\ IF Len(dec.out.buf) >= 16
                THEN /\ dec.out.tagSet
                     /\ dec.out.tag = LastBytes(dec.out.buf, 16)
                     /\ dec.out.fed = ButLastBytes(dec.out.buf, 16)
                     /\ Before(dec.out.calls, "setAuthTag", "update")
                     /\ Before(dec.out.calls, "update", "final")
                ELSE /\ ~dec.out.tagSet
                     /\ Len(dec.out.tag) < 16
                     /\ dec.out.tag = LastBytes(dec.out.buf, Len(dec.out.tag))
                     /\ ~Has(dec.out.calls, "update")
                     /\ ~dec.out.ok
        ELSE /\ ~Has(dec.out.calls, "setAuthTag")
             /\ ~dec.out.tagSet
             /\ dec.out.fed = dec.out.buf

C10_Witness ==
    /\ op = "decrypt" /\ dec.kind = "buffer"
    /\ dec.out.decoded
    /\ enc.segs[3] \in AeadModes
    /\ Len(dec.out.buf) = 17
    /\ dec.out.tagSet
    /\ dec.out.tag = SubSeq(dec.out.buf, 2, 17)
    /\ dec.out.fed = <<dec.out.buf[1]>>

====
